---- MODULE Spec2Model ----
(***************************************************************************)
(* Model of the FRED scripts: fred_key.py (credential lookup over one      *)
(* pyodbc connection), and the two module-level pipelines                  *)
(* fred_cpi_unemployment_linear_regression.py (fetch CPI, fetch UNRATE,    *)
(* merge, fit, plot) and fred_phillips_curve.py (fetch CPI, fetch UNRATE). *)
(* A script is a straight line of statements; pc is the next statement.    *)
(* An uncaught exception ends the run: pc = "error".                       *)
(***************************************************************************)
EXTENDS Integers, Sequences, FiniteSets, TLC

VARIABLES
    script,        \* which script runs: "regression" or "phillips"
    pc,            \* position of the module-level code
    err,           \* the uncaught exception, if any
    db_result,     \* what the database answered to the lookup
    cnxn,          \* the pyodbc connection: "none", "open", "closed"
    connects,      \* number of pyodbc.connect calls that succeeded
    fred_key,      \* module-level fred_key (fred_key.py:50)
    params0,       \* the params mappings as the caller built them
    cpi_params,    \* cpi_params / first obs_params (a dict, mutated in place)
    unemp_params,  \* unemp_params / second obs_params
    requests,      \* every requests.get issued so far, in order
    calls,         \* every fred_get call that has ended, in order
    inflight,      \* number of requests.get calls waiting for an answer
    cpi_resp,      \* cpi_resp
    unemp_resp,    \* unemp_resp
    cpi_df,        \* cpi_df (rows in index order)
    unemp_df,      \* unemp_df
    merged_df,     \* merged_df
    reg,           \* reg: the LinearRegression object
    steps          \* the statements executed so far, in order

vars == <<script, pc, err, db_result, cnxn, connects, fred_key, params0,
          cpi_params, unemp_params, requests, calls, inflight, cpi_resp,
          unemp_resp, cpi_df, unemp_df, merged_df, reg, steps>>

----------------------------------------------------------------------------
(* Bounds of the model *)

\* longest "observations" array a response carries
MaxLen == 2
\* most rows of a merged table handed to the fit on its own
MaxPts == 3
\* largest predictor / response value of such a table
MaxVal == 2

----------------------------------------------------------------------------
(* Values *)

\* fred_key before fred_key.py has assigned it
NoKey == "<unbound>"
\* the key stored in Main.fred.LKP_API_KEY.api
DbKey == "DBKEY"
\* a key a caller put into params itself
CallerKey == "CALLERKEY"

NoErr == [kind |-> "none", at |-> "none", status |-> 0]

\* a float: NaN, or (in this model) an integer value
NaN == [nan |-> TRUE, v |-> 0]
Num(n) == [nan |-> FALSE, v |-> n]

\* a rational number num/den in lowest terms, den > 0
Abs(n) == IF n < 0 THEN -n ELSE n

RECURSIVE GCD(_, _)
GCD(a, b) == IF b = 0 THEN a ELSE GCD(b, a % b)

Rat(n, d) ==
    LET g == GCD(Abs(n), Abs(d))
        s == IF d < 0 THEN -1 ELSE 1
    IN  [num |-> (s * n) \div g, den |-> (s * d) \div g]

RatSub(p, q) == Rat(p.num * q.den - q.num * p.den, p.den * q.den)
RatMul(p, q) == Rat(p.num * q.num, p.den * q.den)

NoReg == [fitted |-> FALSE, intercept_ |-> Rat(0, 1), coef_ |-> Rat(0, 1)]

\* a decoded response body: has_obs says the JSON is an object with an
\* "observations" array
BadJson == [has_obs |-> FALSE, obs |-> <<>>]
NoResp == [status |-> 0, json |-> BadJson]

----------------------------------------------------------------------------
(* Inputs the environment can produce *)

\* the literal dicts of the scripts
CpiParams0 ==
    [k \in {"series_id", "observation_start", "observation_end",
            "frequency", "units", "file_type"} |->
        CASE k = "series_id" -> "CPIAUCSL"
          [] k = "observation_start" -> "2000-01-01"
          [] k = "observation_end" -> "2025-08-31"
          [] k = "frequency" -> "m"
          [] k = "units" -> "pc1"
          [] k = "file_type" -> "json"]

UnempParams0 ==
    [k \in DOMAIN CpiParams0 |->
        CASE k = "series_id" -> "UNRATE"
          [] k = "units" -> "lin"
          [] OTHER -> CpiParams0[k]]

\* fred_get takes any dict: the scripts pass the literals, and the branch at
\* line 45 exists for a caller that has put its own api_key into params
WithCallerKey(params) == ("api_key" :> CallerKey) @@ params

\* what the lookup can meet: connect fails, execute fails, no row, a NULL
\* api, an empty api, or a key
DbResults == {"connect_error", "execute_error", "no_row", "null", "empty", "key"}

\* final statuses requests.get can hand back (a 3xx without a Location
\* header is not followed and is returned as it is)
Statuses == {200, 204, 304, 404, 500}

\* the "date" and "value" strings of an observation record; "." is FRED's
\* marker of a missing value
RawDates == {"2000-01-01", "2000-02-01"}
RawValues == {"1.0", "2.0", "nan", "."}

Records == [date : RawDates, value : RawValues]

SeqsUpTo(S, n) == UNION {[1..k -> S] : k \in 0..n}

\* bodies of a 200 answer: not the expected shape, or an observations array
Bodies == {BadJson} \cup {[has_obs |-> TRUE, obs |-> o] : o \in SeqsUpTo(Records, MaxLen)}

\* a 204 or a 304 carries no body
BodiesOf(status) == IF status = 200 THEN Bodies ELSE {BadJson}

----------------------------------------------------------------------------
(* fred_key.py *)

\* row = cursor.fetchone(); `not row or not row[0]`
NoKeyInRowWeak(result) == result = "no_row"
NoKeyInRow(result) == result \in {"no_row", "null", "empty"}

\* the lookup raises RuntimeError (every exception is wrapped at line 42)
LookupRaises(result) ==
    \/ result \in {"connect_error", "execute_error"}
    \/ NoKeyInRow(result)

\* row[0] when the lookup returns
KeyOf(result) ==
    CASE result = "key" -> DbKey
      [] result = "empty" -> ""
      [] OTHER -> NoKey

\* The connection after the lookup. pyodbc's Connection.__exit__ commits or
\* rolls back and does not close; the connection closes when the object is
\* deallocated. On return the frame's locals (cnxn, cursor) die at once; on
\* raise the exception's traceback keeps the frame, and cnxn with it.
CnxnAfter(result) ==
    CASE result = "connect_error" -> "none"
      [] LookupRaises(result) -> "open"
      [] OTHER -> "closed"

----------------------------------------------------------------------------
(* fred_get *)

\* if "api_key" not in params: params["api_key"] = fred_key
InjectAlways(params, key) == ("api_key" :> key) @@ params
Inject(params, key) ==
    IF "api_key" \in DOMAIN params THEN params ELSE ("api_key" :> key) @@ params

\* resp.raise_for_status(): HTTPError for 400-599, nothing otherwise
RaisesOnlyClientError(status) == status >= 400 /\ status < 500
raise_for_status(status) == status >= 400 /\ status < 600

----------------------------------------------------------------------------
(* Series loading: pd.DataFrame(...), to_datetime, set_index, astype(float) *)

\* pd.to_datetime on an ISO date string: the day as yyyymmdd
to_datetime(s) ==
    CASE s = "2000-01-01" -> 20000101
      [] s = "2000-02-01" -> 20000201

\* float(s) as astype(float) applies it
FloatParses(s) == s \in {"1.0", "2.0", "nan"}
FloatOf(s) ==
    CASE s = "1.0" -> Num(1)
      [] s = "2.0" -> Num(2)
      [] s = "nan" -> NaN

\* the frame built from a decoded body, or the exception raised on the way
LoadFrame(json) ==
    IF ~json.has_obs
    THEN [err |-> "KeyError", df |-> <<>>]           \* ["observations"]
    ELSE IF json.obs = <<>>
    THEN [err |-> "KeyError", df |-> <<>>]           \* no "date" column
    ELSE IF \E i \in DOMAIN json.obs : ~FloatParses(json.obs[i].value)
    THEN [err |-> "ValueError", df |-> <<>>]         \* astype(float)
    ELSE [err |-> "none",
          df |-> [i \in DOMAIN json.obs |->
                    [date |-> to_datetime(json.obs[i].date),
                     value |-> FloatOf(json.obs[i].value)]]]

----------------------------------------------------------------------------
(* pd.merge(..., left_index=True, right_index=True).dropna() *)

RECURSIVE SelectRows(_, _, _)
\* the rows of right from the i-th on whose date is l's, each joined to l
SelectRows(l, right, i) ==
    IF i > Len(right) THEN <<>>
    ELSE (IF right[i].date = l.date
          THEN <<[date |-> l.date, value_cpi |-> l.value,
                  value_unemp |-> right[i].value]>>
          ELSE <<>>) \o SelectRows(l, right, i + 1)

RECURSIVE InnerJoin(_, _, _)
\* inner join on the index, in the order of the left keys
InnerJoin(left, right, i) ==
    IF i > Len(left) THEN <<>>
    ELSE SelectRows(left[i], right, 1) \o InnerJoin(left, right, i + 1)

NotNa(row) == ~row.value_cpi.nan /\ ~row.value_unemp.nan

dropna(df) == SelectSeq(df, NotNa)

Merge(left, right) == dropna(InnerJoin(left, right, 1))

----------------------------------------------------------------------------
(* LinearRegression().fit(X, y) *)

RECURSIVE SumSeq(_, _)
SumSeq(f, i) == IF i > Len(f) THEN 0 ELSE f[i] + SumSeq(f, i + 1)

XCol(df) == [i \in DOMAIN df |-> df[i].value_cpi.v]
YCol(df) == [i \in DOMAIN df |-> df[i].value_unemp.v]

NotCentered(col) == [i \in DOMAIN col |-> Len(col) * col[i]]

\* a column minus its mean, every entry scaled by n = Len(col)
CenteredN(col) ==
    LET n == Len(col)
        s == SumSeq(col, 1)
    IN  [i \in DOMAIN col |-> n * col[i] - s]

\* the offset the estimator keeps for a column: its mean
Offset(col) == Rat(SumSeq(col, 1), Len(col))

\* linalg.lstsq on the centered column: the minimum-norm least-squares
\* solution, which is 0 when the column is all zero
Lstsq(xc, yc) ==
    LET sxy == SumSeq([i \in DOMAIN xc |-> xc[i] * yc[i]], 1)
        sxx == SumSeq([i \in DOMAIN xc |-> xc[i] * xc[i]], 1)
    IN  IF sxx = 0 THEN Rat(0, 1) ELSE Rat(sxy, sxx)

\* check_array refuses an array with 0 samples
FitRaises(df) == Len(df) = 0

\* _preprocess_data centers X and y, lstsq solves, _set_intercept
Fit(df) ==
    LET x == XCol(df)
        y == YCol(df)
        coef == Lstsq(CenteredN(x), CenteredN(y))
    IN  [fitted |-> TRUE,
         coef_ |-> coef,
         intercept_ |-> RatSub(Offset(y), RatMul(Offset(x), coef))]

----------------------------------------------------------------------------
(* The run *)

Init ==
    /\ script \in {"regression", "phillips"}
    /\ pc = "import_key"
    /\ err = NoErr
    /\ db_result = "unknown"
    /\ cnxn = "none"
    /\ connects = 0
    /\ fred_key = NoKey
    /\ params0 \in [cpi : {CpiParams0, WithCallerKey(CpiParams0)},
                    unemp : {UnempParams0}]
    /\ cpi_params = params0.cpi
    /\ unemp_params = params0.unemp
    /\ requests = <<>>
    /\ calls = <<>>
    /\ inflight = 0
    /\ cpi_resp = NoResp
    /\ unemp_resp = NoResp
    /\ cpi_df = <<>>
    /\ unemp_df = <<>>
    /\ merged_df = <<>>
    /\ reg = NoReg
    /\ steps = <<>>

\* an exception nobody catches: the traceback is printed and the run ends
Uncaught(kind, at, status) ==
    /\ pc' = "error"
    /\ err' = [kind |-> kind, at |-> at, status |-> status]

\* `from fred_key import fred_key`: runs fred_key.py, whose last line calls
\* _get_fred_api_key(); its RuntimeError is no ImportError and passes the
\* except clause of the importing script
FredKeyImport ==
    /\ pc = "import_key"
    /\ \E result \in DbResults :
        /\ db_result' = result
        /\ connects' = IF result = "connect_error" THEN connects ELSE connects + 1
        /\ cnxn' = CnxnAfter(result)
        /\ IF LookupRaises(result)
           THEN /\ Uncaught("RuntimeError", "import_key", 0)
                /\ UNCHANGED fred_key
           ELSE /\ fred_key' = KeyOf(result)
                /\ pc' = "cpi_send"
                /\ UNCHANGED err
    /\ steps' = Append(steps, "import_key")
    /\ UNCHANGED <<script, params0, cpi_params, unemp_params, requests, calls,
                   inflight, cpi_resp, unemp_resp, cpi_df, unemp_df,
                   merged_df, reg>>

\* fred_get up to requests.get: the key goes into the caller's dict and the
\* GET is issued with that dict
Request(series, params) ==
    [call |-> Len(calls) + 1, series |-> series, params |-> params]

CpiSend ==
    /\ pc = "cpi_send"
    /\ cpi_params' = Inject(cpi_params, fred_key)
    /\ requests' = Append(requests, Request("cpi", cpi_params'))
    /\ inflight' = inflight + 1
    /\ pc' = "cpi_wait"
    /\ steps' = Append(steps, "cpi_send")
    /\ UNCHANGED <<script, err, db_result, cnxn, connects, fred_key, params0,
                   unemp_params, calls, cpi_resp, unemp_resp, cpi_df,
                   unemp_df, merged_df, reg>>

UnempSend ==
    /\ pc = "unemp_send"
    /\ unemp_params' = Inject(unemp_params, fred_key)
    /\ requests' = Append(requests, Request("unemp", unemp_params'))
    /\ inflight' = inflight + 1
    /\ pc' = "unemp_wait"
    /\ steps' = Append(steps, "unemp_send")
    /\ UNCHANGED <<script, err, db_result, cnxn, connects, fred_key, params0,
                   cpi_params, calls, cpi_resp, unemp_resp, cpi_df,
                   unemp_df, merged_df, reg>>

\* the rest of fred_get: the answer arrives, raise_for_status, and either
\* the HTTPError is raised again or resp is returned
Call(series, status) ==
    [series |-> series, status |-> status, raised |-> raise_for_status(status)]

CpiRecv ==
    /\ pc = "cpi_wait"
    /\ \E status \in Statuses : \E body \in BodiesOf(status) :
        /\ calls' = Append(calls, Call("cpi", status))
        /\ IF raise_for_status(status)
           THEN /\ Uncaught("HTTPError", "cpi_recv", status)
                /\ UNCHANGED cpi_resp
           ELSE /\ cpi_resp' = [status |-> status, json |-> body]
                /\ pc' = "cpi_load"
                /\ UNCHANGED err
    /\ inflight' = inflight - 1
    /\ steps' = Append(steps, "cpi_recv")
    /\ UNCHANGED <<script, db_result, cnxn, connects, fred_key, params0,
                   cpi_params, unemp_params, requests, unemp_resp, cpi_df,
                   unemp_df, merged_df, reg>>

UnempRecv ==
    /\ pc = "unemp_wait"
    /\ \E status \in Statuses : \E body \in BodiesOf(status) :
        /\ calls' = Append(calls, Call("unemp", status))
        /\ IF raise_for_status(status)
           THEN /\ Uncaught("HTTPError", "unemp_recv", status)
                /\ UNCHANGED unemp_resp
           ELSE /\ unemp_resp' = [status |-> status, json |-> body]
                /\ pc' = "unemp_load"
                /\ UNCHANGED err
    /\ inflight' = inflight - 1
    /\ steps' = Append(steps, "unemp_recv")
    /\ UNCHANGED <<script, db_result, cnxn, connects, fred_key, params0,
                   cpi_params, unemp_params, requests, cpi_resp, cpi_df,
                   unemp_df, merged_df, reg>>

\* the four statements that build cpi_df (obs_data in fred_phillips_curve.py)
CpiLoadSwallow ==
    /\ pc = "cpi_load"
    /\ cpi_df' = LoadFrame(cpi_resp.json).df
    /\ pc' = "unemp_send"
    /\ steps' = Append(steps, "cpi_load")
    /\ UNCHANGED <<script, err, db_result, cnxn, connects, fred_key, params0,
                   cpi_params, unemp_params, requests, calls, inflight,
                   cpi_resp, unemp_resp, unemp_df, merged_df, reg>>

CpiLoad ==
    /\ pc = "cpi_load"
    /\ LET r == LoadFrame(cpi_resp.json)
       IN  IF r.err # "none"
           THEN /\ Uncaught(r.err, "cpi_load", 0)
                /\ UNCHANGED cpi_df
           ELSE /\ cpi_df' = r.df
                /\ pc' = "unemp_send"
                /\ UNCHANGED err
    /\ steps' = Append(steps, "cpi_load")
    /\ UNCHANGED <<script, db_result, cnxn, connects, fred_key, params0,
                   cpi_params, unemp_params, requests, calls, inflight,
                   cpi_resp, unemp_resp, unemp_df, merged_df, reg>>

\* the same for unemp_df; fred_phillips_curve.py ends after it
UnempLoad ==
    /\ pc = "unemp_load"
    /\ LET r == LoadFrame(unemp_resp.json)
       IN  IF r.err # "none"
           THEN /\ Uncaught(r.err, "unemp_load", 0)
                /\ UNCHANGED unemp_df
           ELSE /\ unemp_df' = r.df
                /\ pc' = IF script = "regression" THEN "merge" ELSE "done"
                /\ UNCHANGED err
    /\ steps' = Append(steps, "unemp_load")
    /\ UNCHANGED <<script, db_result, cnxn, connects, fred_key, params0,
                   cpi_params, unemp_params, requests, calls, inflight,
                   cpi_resp, unemp_resp, cpi_df, merged_df, reg>>

MergeStep ==
    /\ pc = "merge"
    /\ merged_df' = Merge(cpi_df, unemp_df)
    /\ pc' = "fit"
    /\ steps' = Append(steps, "merge")
    /\ UNCHANGED <<script, err, db_result, cnxn, connects, fred_key, params0,
                   cpi_params, unemp_params, requests, calls, inflight,
                   cpi_resp, unemp_resp, cpi_df, unemp_df, reg>>

FitStep ==
    /\ pc = "fit"
    /\ IF FitRaises(merged_df)
       THEN /\ Uncaught("ValueError", "fit", 0)
            /\ UNCHANGED reg
       ELSE /\ reg' = Fit(merged_df)
            /\ pc' = "plot"
            /\ UNCHANGED err
    /\ steps' = Append(steps, "fit")
    /\ UNCHANGED <<script, db_result, cnxn, connects, fred_key, params0,
                   cpi_params, unemp_params, requests, calls, inflight,
                   cpi_resp, unemp_resp, cpi_df, unemp_df, merged_df>>

\* the plotting statements read merged_df and reg and change neither
PlotStep ==
    /\ pc = "plot"
    /\ pc' = "done"
    /\ steps' = Append(steps, "plot")
    /\ UNCHANGED <<script, err, db_result, cnxn, connects, fred_key, params0,
                   cpi_params, unemp_params, requests, calls, inflight,
                   cpi_resp, unemp_resp, cpi_df, unemp_df, merged_df, reg>>

Next ==
    \/ FredKeyImport
    \/ CpiSend
    \/ CpiRecv
    \/ CpiLoad
    \/ UnempSend
    \/ UnempRecv
    \/ UnempLoad
    \/ MergeStep
    \/ FitStep
    \/ PlotStep

Spec == Init /\ [][Next]_vars

----------------------------------------------------------------------------
(* The merge and the fit on their own, over tables of small integers *)

\* the two columns of a table of (x, y) points as two loaded frames, the
\* i-th point dated the i-th of January 2000
FrameOf(col) ==
    [i \in DOMAIN col |-> [date |-> 20000100 + i, value |-> Num(col[i])]]

\* y = 2 + 3x for x in 0..4
LinearX == [i \in 1..5 |-> i - 1]
LinearY == [i \in 1..5 |-> 2 + 3 * (i - 1)]

FitInputs ==
    {<<LinearX, LinearY>>} \cup
    UNION {[1..k -> 0..MaxVal] \X [1..k -> 0..MaxVal] : k \in 0..MaxPts}

FitInit ==
    /\ script = "regression"
    /\ pc = "merge"
    /\ err = NoErr
    /\ db_result = "key"
    /\ cnxn = "closed"
    /\ connects = 1
    /\ fred_key = DbKey
    /\ params0 = [cpi |-> CpiParams0, unemp |-> UnempParams0]
    /\ cpi_params = Inject(CpiParams0, DbKey)
    /\ unemp_params = Inject(UnempParams0, DbKey)
    /\ requests = <<[call |-> 1, series |-> "cpi", params |-> cpi_params],
                    [call |-> 2, series |-> "unemp", params |-> unemp_params]>>
    /\ calls = <<Call("cpi", 200), Call("unemp", 200)>>
    /\ inflight = 0
    /\ cpi_resp = [status |-> 200, json |-> BadJson]
    /\ unemp_resp = [status |-> 200, json |-> BadJson]
    /\ \E in \in FitInputs :
        /\ cpi_df = FrameOf(in[1])
        /\ unemp_df = FrameOf(in[2])
    /\ merged_df = <<>>
    /\ reg = NoReg
    /\ steps = <<"import_key", "cpi_send", "cpi_recv", "cpi_load",
                 "unemp_send", "unemp_recv", "unemp_load">>

FitNext ==
    \/ MergeStep
    \/ FitStep
    \/ PlotStep

FitSpec == FitInit /\ [][FitNext]_vars

----------------------------------------------------------------------------
(* Properties *)

Range(f) == {f[i] : i \in DOMAIN f}
Ran(step) == step \in Range(steps)
Dates(df) == [i \in DOMAIN df |-> df[i].date]
StrictlyIncreasing(f) == \A i, j \in DOMAIN f : i < j => f[i] < f[j]
NoDuplicates(f) == \A i, j \in DOMAIN f : i # j => f[i] # f[j]
RequestsOf(i) == {j \in DOMAIN requests : requests[j].call = i}

\* a fred_get call that raised is the last thing the run did: the HTTPError,
\* with the status in it, is the uncaught exception
Surfaced(i) ==
    /\ i = Len(calls)
    /\ pc = "error"
    /\ err.kind = "HTTPError"
    /\ err.status = calls[i].status

\* a fred_get call that returned handed its response to the caller
Returned(i) ==
    /\ ~(err.kind = "HTTPError" /\ i = Len(calls))
    /\ IF calls[i].series = "cpi"
       THEN cpi_resp.status = calls[i].status
       ELSE unemp_resp.status = calls[i].status

\* C1 as stated: every fred_get call answered with a status outside 200-299
\* raises an error carrying the status, surfaced at once, after exactly one
\* HTTP request; every call answered with 200-299 returns normally.
C1_NonSuccessStatusRaises ==
    \A i \in DOMAIN calls :
        /\ Cardinality(RequestsOf(i)) = 1
        /\ IF calls[i].status >= 200 /\ calls[i].status <= 299
           THEN ~calls[i].raised /\ Returned(i)
           ELSE calls[i].raised /\ Surfaced(i)

\* C1 amended: every fred_get call answered with a status in 400-599 raises
\* an HTTPError carrying the status, surfaced at once, after exactly one HTTP
\* request and no retry; every call answered with any other status (2xx, and
\* also an unfollowed 3xx such as 304) returns normally.
C1_ErrorStatusRaises ==
    \A i \in DOMAIN calls :
        /\ Cardinality(RequestsOf(i)) = 1
        /\ IF calls[i].status >= 400 /\ calls[i].status <= 599
           THEN calls[i].raised /\ Surfaced(i)
           ELSE ~calls[i].raised /\ Returned(i)

C1_Witness ==
    /\ Len(calls) = 2
    /\ calls[1].status = 200 /\ ~calls[1].raised
    /\ calls[2].status = 404 /\ calls[2].raised
    /\ err = [kind |-> "HTTPError", at |-> "unemp_recv", status |-> 404]
    /\ Len(requests) = 2

\* C2: when the lookup yields no API key (it fails, finds no row, or finds a
\* NULL or empty value) the run has aborted with an error and no HTTP request
\* has been issued.
C2_NoKeyNoRequest ==
    db_result \notin {"unknown", "key"} =>
        /\ pc = "error"
        /\ err.kind = "RuntimeError"
        /\ fred_key = NoKey
        /\ requests = <<>>
        /\ inflight = 0

C2_Witness ==
    /\ db_result = "empty"
    /\ pc = "error"
    /\ steps = <<"import_key">>

\* the dates of the records of a body whose value parses as a number
ParseableDates(json) ==
    {to_datetime(json.obs[i].date) :
        i \in {k \in DOMAIN json.obs : FloatParses(json.obs[k].value)}}

\* C3: loading a payload in which some record's value does not parse as a
\* number does not crash: the load completes and the table holds exactly the
\* dates of the records whose value parses.
C3_SentinelDoesNotCrash ==
    /\ (Ran("cpi_load") /\ cpi_resp.json.has_obs /\ cpi_resp.json.obs # <<>>) =>
            /\ err.at # "cpi_load"
            /\ Range(Dates(cpi_df)) = ParseableDates(cpi_resp.json)
    /\ (Ran("unemp_load") /\ unemp_resp.json.has_obs /\ unemp_resp.json.obs # <<>>) =>
            /\ err.at # "unemp_load"
            /\ Range(Dates(unemp_df)) = ParseableDates(unemp_resp.json)

\* the dates at which a loaded frame has a value that is not NaN
ValidDates(df) == {df[i].date : i \in {k \in DOMAIN df : ~df[k].value.nan}}

\* C4: the dates of the merged table are exactly the dates that have a valid
\* value in both inputs, and each of them appears exactly once.
C4_MergeIsIntersection ==
    Ran("merge") =>
        /\ Range(Dates(merged_df)) = ValidDates(cpi_df) \cap ValidDates(unemp_df)
        /\ NoDuplicates(Dates(merged_df))

\* C5: when the merged table has fewer than 2 distinct predictor values, the
\* fit fails instead of producing an intercept and a slope.
C5_DegenerateFitFails ==
    (Ran("fit") /\ Cardinality(Range(XCol(merged_df))) < 2) =>
        /\ pc = "error"
        /\ err.at = "fit"
        /\ ~reg.fitted

\* the statements of a run in the order of the script
Pipeline ==
    <<"import_key", "cpi_send", "cpi_recv", "cpi_load", "unemp_send",
      "unemp_recv", "unemp_load", "merge", "fit", "plot">>

\* C6: the run is sequential and fail-fast. The statements run in script
\* order; at most one request is outstanding; the unemployment request is
\* issued only after the CPI call returned and the CPI frame was built; an
\* error ends the run at the statement that raised it, and no step follows.
C6_State ==
    /\ Len(steps) <= Len(Pipeline)
    /\ steps = SubSeq(Pipeline, 1, Len(steps))
    /\ inflight \in {0, 1}
    /\ inflight = Len(requests) - Len(calls)
    /\ \A j \in DOMAIN requests :
        requests[j].series = "unemp" =>
            /\ j = 2
            /\ requests[1].series = "cpi"
            /\ ~calls[1].raised
            /\ Ran("cpi_load")
            /\ LoadFrame(cpi_resp.json).err = "none"
            /\ cpi_df = LoadFrame(cpi_resp.json).df
    /\ (pc = "error") = (err.kind # "none")
    /\ err.kind # "none" => steps[Len(steps)] = err.at
    /\ ~Ran("merge") => merged_df = <<>>
    /\ ~(Ran("fit") /\ err.kind = "none") => ~reg.fitted

C7_ConnectionReleased ==
    pc # "import_key" => (connects <= 1 /\ cnxn # "open")

\* C8: every frame the loader builds has strictly increasing dates.
C8_DatesStrictlyIncreasing ==
    /\ StrictlyIncreasing(Dates(cpi_df))
    /\ StrictlyIncreasing(Dates(unemp_df))

\* the sums the closed-form solution is written in
SumX(df) == SumSeq(XCol(df), 1)
SumY(df) == SumSeq(YCol(df), 1)
SumXY(df) == SumSeq([i \in DOMAIN df |-> XCol(df)[i] * YCol(df)[i]], 1)
SumXX(df) == SumSeq([i \in DOMAIN df |-> XCol(df)[i] * XCol(df)[i]], 1)

Keyed(orig) ==
    IF "api_key" \in DOMAIN orig
    THEN orig
    ELSE [k \in DOMAIN orig \cup {"api_key"} |->
            IF k = "api_key" THEN fred_key ELSE orig[k]]

\* C10: every request carries an api_key. A dict without one gets the
\* module-level key put into it, and keeps it after the call, also when the
\* call raises; a dict that has one keeps its value; no other entry changes.
C10_ApiKeyInjected ==
    /\ \A j \in DOMAIN requests :
        /\ "api_key" \in DOMAIN requests[j].params
        /\ requests[j].params =
             Keyed(IF requests[j].series = "cpi" THEN params0.cpi ELSE params0.unemp)
    /\ cpi_params = IF Ran("cpi_send") THEN Keyed(params0.cpi) ELSE params0.cpi
    /\ unemp_params = IF Ran("unemp_send") THEN Keyed(params0.unemp) ELSE params0.unemp

C10_Witness ==
    /\ err.kind = "HTTPError"
    /\ err.at = "unemp_recv"
    /\ "api_key" \notin DOMAIN params0.unemp
    /\ unemp_params["api_key"] = DbKey
    /\ requests[2].params["api_key"] = DbKey
    /\ "api_key" \in DOMAIN params0.cpi
    /\ cpi_params = params0.cpi
    /\ requests[1].params["api_key"] = CallerKey

====
